---------------------------- MODULE Spec2Model ----------------------------
(***************************************************************************)
(* Model of the two monitoring scripts of chainflip-community-rpc-nodes:   *)
(*   src/betterstack/solana/hearbeat.py        (heartbeat variant)         *)
(*   src/prometheus_exporters/solana/exporter.py (exporter variant)        *)
(*                                                                         *)
(* Each script is a single-threaded loop.  A script's position (pc) is the *)
(* blocking call it is inside: requests.post, requests.get or time.sleep.  *)
(* One action is everything the script does between two blocking calls.    *)
(* Library behaviour that the scripts rely on (requests, prometheus_client,*)
(* schedule, Python's operators) is modelled by what the library does:     *)
(*   - requests.post/get without timeout= wait for the peer without limit, *)
(*   - Response.raise_for_status raises HTTPError for 400 <= status < 600, *)
(*   - Response.json raises requests.JSONDecodeError (a RequestException,  *)
(*     requests >= 2.27) when the body is not JSON,                        *)
(*   - Gauge.set(v) stores float(v); Gauge.inc() adds 1; a labelled series *)
(*     exists only after .labels(...) was called for it.                   *)
(* JSON numbers of the model are integers of magnitude far below 2^53, on  *)
(* which float() is exact.                                                 *)
(***************************************************************************)
EXTENDS Integers, Sequences, FiniteSets, TLC

VARIABLES
    \* ---- heartbeat variant ----
    hbConfig,   \* config["hosts"]: sequence of [host, rpc_url, heartbeat_endpoint]
    hbPc,       \* "start" | "post" | "get" | "sleep" | "crashed" | "interrupted"
    hbI,        \* index in hbConfig of the host the for-loop of job is at (0: none)
    hbNet,      \* the peer of the pending request: "answers" | "silent" | "none"
    hbProbe,    \* this cycle: host index -> what check_rpc_call did for it
    hbSent,     \* this cycle: sequence of send_heartbeat invocations [idx, url]
    hbGet,      \* this cycle: host index -> outcome of the heartbeat GET
    hbLast,     \* this cycle: the response requests.post returned last, and for
                \* which host index (idx 0: none yet)
    hbNap,      \* seconds of the time.sleep the script is in (0: not sleeping)
    hbJobs,     \* history: number of calls of job so far
    hbSleeps    \* history: number of calls of time.sleep that have returned

VARIABLES
    \* ---- exporter variant ----
    exHosts,    \* config["hosts"]: sequence of [host, rpc_url]
    exPc,       \* "sleep" | "ref" | "host" | "diff" | "exited" | "interrupted"
    exI,        \* index in exHosts of the host the for-loop is at (0: none)
    exNet,      \* the peer of the pending request: "answers" | "silent" | "none"
    exTimer,    \* seconds until the scheduled job is due (schedule's next_run)
    exCycles,   \* number of times job has been started
    reference_slot,     \* local of check_node_slots (line 62)
    node_slot,          \* local of check_node_slots (line 75)
    REFERENCE_SLOT_NUMBER,              \* the five metrics, lines 16-30
    REFERENCE_SLOT_NUMBER_ERROR_COUNT,
    NODE_SLOT_NUMBER,
    SLOT_DIFFERENCE,
    NODE_SLOT_NUMBER_ERROR_COUNT,
    exPre,      \* history: the five metrics when the current cycle started
    exLog,      \* history: what get_slot_number returned in the current cycle
    exPrev,     \* history: exLog of the cycle before the current one
    exStamp,    \* history: the cycle that wrote each gauge last (0: none), and per
                \* host the reference gauge when the host's slot was written last
    exCritical, \* logging.critical of line 130 was called
    exRead      \* the response of the scrape of /metrics that the responder
                \* thread served since the last step of the main thread, if any

exMetricVars == <<REFERENCE_SLOT_NUMBER, REFERENCE_SLOT_NUMBER_ERROR_COUNT,
                  NODE_SLOT_NUMBER, SLOT_DIFFERENCE, NODE_SLOT_NUMBER_ERROR_COUNT>>
exLoopVars == <<exHosts, exPc, exI, exNet, exTimer, exCycles, reference_slot,
                node_slot, exMetricVars, exPre, exLog, exPrev, exStamp, exCritical>>
exVars == <<exLoopVars, exRead>>

hbVars == <<hbConfig, hbPc, hbI, hbNet, hbProbe, hbSent, hbGet, hbLast,
           hbNap, hbJobs, hbSleeps>>

-----------------------------------------------------------------------------
(* Bounds of the model *)

\* largest number of hosts in config["hosts"] of the heartbeat variant
MaxHbHosts == 2

\* number of cycles of the heartbeat script the model follows
MaxHbCycles == 2

\* largest number of hosts in config["hosts"] of the exporter variant
MaxExHosts == 2

\* slot numbers that endpoints report range over -MaxSlot..MaxSlot
MaxSlot == 1

\* number of cycles of the exporter the model follows
MaxCycles == 2

-----------------------------------------------------------------------------
(* JSON values, as json.loads / Response.json produce them *)

JNull == [t |-> "null"]
JBool(b) == [t |-> "bool", b |-> b]
JInt(n) == [t |-> "int", i |-> n]
JStr(s) == [t |-> "str", s |-> s]          \* s: sequence of characters
JArr(a) == [t |-> "arr", a |-> a]          \* a: sequence of JSON values
JObj(f) == [t |-> "obj", f |-> f]          \* f: function from keys to JSON values
NotJson == [t |-> "notjson"]               \* a body json() cannot decode

StrOk == <<"o", "k">>
StrError == <<"e", "r", "r", "o", "r">>
StrDigit == <<"1">>

EmptyObj == JObj([k \in {} |-> JNull])
ObjWith(k, v) == JObj([x \in {k} |-> v])
ObjWith2(k1, v1, k2, v2) == JObj([x \in {k1, k2} |-> IF x = k1 THEN v1 ELSE v2])

\* Python: needle in haystack, for two str operands (substring test)
IsSubstring(needle, hay) ==
    \E off \in 0..(Len(hay) - Len(needle)) :
        \A k \in 1..Len(needle) : hay[off + k] = needle[k]

\* Python: x == y for JSON values of the model
JEq(x, y) == x.t = y.t /\ x = y

-----------------------------------------------------------------------------
(* What a pending HTTP request can come back with *)

Transport == [kind |-> "transport"]        \* requests raises ConnectionError, ...
Http(status, body) == [kind |-> "http", status |-> status, body |-> body]

Statuses == {200, 300, 404, 503}

\* Response.raise_for_status
RaiseForStatus(status) == 400 <= status /\ status < 600

\* bodies a getHealth endpoint may answer with
HealthBodies ==
    { NotJson, JNull, JBool(TRUE), JInt(0), JStr(StrOk), JStr(StrError),
      JArr(<<>>), JArr(<<JStr(StrError)>>),
      EmptyObj, ObjWith("result", JStr(StrOk)),
      ObjWith("error", ObjWith("code", JInt(-1))),
      ObjWith2("result", JStr(StrOk), "error", JNull) }

HealthResponses ==
    {Transport} \cup {Http(s, b) : s \in Statuses, b \in HealthBodies}

GetResponses ==
    {Transport} \cup {Http(s, NotJson) : s \in Statuses}

-----------------------------------------------------------------------------
(* hearbeat.py: check_rpc_call *)

\* Python: "error" in result  ->  "True" | "False" | "TypeError"
ErrorIn(result) ==
    CASE result.t = "obj" -> IF "error" \in DOMAIN result.f THEN "True" ELSE "False"
      [] result.t = "arr" ->
            IF \E k \in 1..Len(result.a) : JEq(result.a[k], JStr(StrError))
            THEN "True" ELSE "False"
      [] result.t = "str" -> IF IsSubstring(StrError, result.s) THEN "True" ELSE "False"
      [] OTHER -> "TypeError"              \* None, bool, int are not iterable

\* Python: result['error']  (inside the f-string of logging.error)
SubscriptError(result) == IF result.t = "obj" THEN "ok" ELSE "TypeError"

\* Python: result.get('result')  (inside the f-string of logging.info)
GetResult(result) == IF result.t = "obj" THEN "ok" ELSE "AttributeError"

\* check_rpc_call(host) for the response resp of requests.post:
\* "True" | "False" | the exception that leaves the function
CheckRpcCall(resp) ==
    IF resp.kind = "transport" THEN "False"
    ELSE IF RaiseForStatus(resp.status) THEN "False"
    ELSE IF resp.body = NotJson THEN "False"
    ELSE LET result == resp.body
             has == ErrorIn(result)
         IN  CASE has = "TypeError" -> "TypeError"
               [] has = "True" ->
                    IF SubscriptError(result) = "ok" THEN "False" ELSE "TypeError"
               [] has = "False" ->
                    IF GetResult(result) = "ok" THEN "True" ELSE "AttributeError"

IsException(r) == r \in {"TypeError", "AttributeError", "ValueError"}


-----------------------------------------------------------------------------
(* hearbeat.py: configuration *)

HostLabel(i) == <<"node", i>>
RpcUrl(i) == <<"rpc", i>>
HbEndpoints == {<<"hb", k>> : k \in 1..MaxHbHosts}

\* config["hosts"] as load_config returns it: any list of hosts; the labels
\* and RPC URLs differ per entry, the heartbeat endpoints need not
HbConfigs ==
    UNION { { [i \in 1..n |-> [host |-> HostLabel(i), rpc_url |-> RpcUrl(i),
                               heartbeat_endpoint |-> e[i]]] :
              e \in [1..n -> HbEndpoints] } : n \in 1..MaxHbHosts }

HbN == Len(hbConfig)

\* the peer of a request that was just issued: it answers (with a response or
\* with a transport error), or it accepts the connection and stays silent
Peers == {"answers", "silent"}

-----------------------------------------------------------------------------
(* hearbeat.py: job and the main loop *)

\* mutant of ShouldSend: the heartbeat is sent whatever the probe returned
ShouldSendAlways(r) == r \in {"True", "False"}

\* line 65: if check_rpc_call(host):
ShouldSend(r) == r = "True"

\* line 66: the argument of send_heartbeat for the host at index i
HeartbeatUrl(cfg, i) == cfg[i].heartbeat_endpoint

\* send_heartbeat(url) for the response of requests.get: every outcome,
\* RequestException included, is logged and the function returns None
SendHeartbeat(resp) ==
    IF resp.kind = "transport" THEN "transport"
    ELSE IF RaiseForStatus(resp.status) THEN "http_error"
    ELSE "ok"

\* line 90: time.sleep(30)
HbInterval == 30

\* entering the body of the for-loop for host i: requests.post is issued
HbIterate(i) ==
    /\ hbPc' = "post"
    /\ hbI' = i
    /\ hbNet' \in Peers
    /\ hbNap' = 0

\* the for-loop of job after the body for host i
HbAdvance(i) ==
    IF i < HbN
    THEN HbIterate(i + 1)
    ELSE /\ hbPc' = "sleep"        \* job returns; line 90: time.sleep(30)
         /\ hbI' = 0
         /\ hbNet' = "none"
         /\ hbNap' = HbInterval

HbFresh == [i \in 1..HbN |-> "none"]
NoResponse == [idx |-> 0, resp |-> [kind |-> "none"]]

\* line 86: job(config), once at startup
HbStart ==
    /\ hbPc = "start"
    /\ HbIterate(1)
    /\ hbJobs' = hbJobs + 1
    /\ UNCHANGED <<hbConfig, hbProbe, hbSent, hbGet, hbLast, hbSleeps>>

\* lines 89-91: time.sleep(30) returns and job(config) is called again
HbWake ==
    /\ hbPc = "sleep"
    /\ hbJobs < MaxHbCycles
    /\ hbSleeps' = hbSleeps + 1
    /\ hbJobs' = hbJobs + 1
    /\ HbIterate(1)
    /\ hbProbe' = HbFresh
    /\ hbSent' = <<>>
    /\ hbGet' = HbFresh
    /\ hbLast' = NoResponse
    /\ UNCHANGED hbConfig

\* requests.post of check_rpc_call returns for host hbI; lines 43-66
HbPostReturn ==
    /\ hbPc = "post"
    /\ hbNet = "answers"
    /\ \E resp \in HealthResponses :
         LET r == CheckRpcCall(resp) IN
         /\ hbProbe' = [hbProbe EXCEPT ![hbI] = r]
         /\ hbLast' = [idx |-> hbI, resp |-> resp]
         /\ IF IsException(r)
            THEN \* nothing in job or the main loop catches it
                 /\ hbPc' = "crashed"
                 /\ hbNet' = "none"
                 /\ UNCHANGED <<hbI, hbSent, hbNap>>
            ELSE IF ShouldSend(r)
            THEN \* send_heartbeat: requests.get is issued
                 /\ hbSent' = Append(hbSent, [idx |-> hbI,
                                              url |-> HeartbeatUrl(hbConfig, hbI)])
                 /\ hbPc' = "get"
                 /\ hbNet' \in Peers
                 /\ UNCHANGED <<hbI, hbNap>>
            ELSE /\ HbAdvance(hbI)
                 /\ UNCHANGED hbSent
    /\ UNCHANGED <<hbConfig, hbGet, hbJobs, hbSleeps>>

\* requests.get of send_heartbeat returns for host hbI; lines 29-33
HbGetReturn ==
    /\ hbPc = "get"
    /\ hbNet = "answers"
    /\ \E resp \in GetResponses :
         hbGet' = [hbGet EXCEPT ![hbI] = SendHeartbeat(resp)]
    /\ HbAdvance(hbI)
    /\ UNCHANGED <<hbConfig, hbProbe, hbSent, hbLast, hbJobs, hbSleeps>>

\* the process is interrupted from outside (SIGINT, kill)
HbInterrupt ==
    /\ hbPc \in {"start", "post", "get", "sleep"}
    /\ hbPc' = "interrupted"
    /\ hbNet' = "none"
    /\ hbNap' = 0
    /\ UNCHANGED <<hbConfig, hbI, hbProbe, hbSent, hbGet, hbLast, hbJobs, hbSleeps>>

HbInit ==
    /\ hbConfig \in HbConfigs
    /\ hbPc = "start"
    /\ hbI = 0
    /\ hbNet = "none"
    /\ hbProbe = [i \in 1..Len(hbConfig) |-> "none"]
    /\ hbSent = <<>>
    /\ hbGet = [i \in 1..Len(hbConfig) |-> "none"]
    /\ hbLast = NoResponse
    /\ hbNap = 0
    /\ hbJobs = 0
    /\ hbSleeps = 0

-----------------------------------------------------------------------------
(* exporter.py: Python and prometheus_client primitives *)

Digits == <<"0", "1", "2", "3", "4", "5", "6", "7", "8", "9">>
IsDigit(c) == \E d \in 1..10 : Digits[d] = c
DigitValue(c) == (CHOOSE d \in 1..10 : Digits[d] = c) - 1

RECURSIVE DecimalValue(_)
DecimalValue(s) ==
    IF s = <<>> THEN 0
    ELSE 10 * DecimalValue(SubSeq(s, 1, Len(s) - 1)) + DigitValue(s[Len(s)])

Ok(n) == [ok |-> TRUE, v |-> n]
Raised(e) == [ok |-> FALSE, e |-> e]

\* Python: float(v), which Gauge.set applies to its argument.  The strings of
\* the model are made of letters and digits only.
PyFloat(v) ==
    CASE v.t = "int" -> Ok(v.i)
      [] v.t = "bool" -> Ok(IF v.b THEN 1 ELSE 0)
      [] v.t = "str" ->
            IF v.s # <<>> /\ \A k \in 1..Len(v.s) : IsDigit(v.s[k])
            THEN Ok(DecimalValue(v.s))
            ELSE Raised("ValueError")
      [] OTHER -> Raised("TypeError")      \* list, dict

IsNumber(v) == v.t \in {"int", "bool"}
NumberOf(v) == IF v.t = "int" THEN v.i ELSE IF v.b THEN 1 ELSE 0

\* Python: a - b
PySub(a, b) ==
    IF IsNumber(a) /\ IsNumber(b)
    THEN Ok(NumberOf(a) - NumberOf(b))
    ELSE Raised("TypeError")               \* str, list or dict operand

\* a labelled series before .labels(host=...) was called for it
Unset == [set |-> FALSE]
Val(n) == [set |-> TRUE, v |-> n]

\* Gauge.labels(host=...).inc(): .labels creates the series at 0
LabelledInc(g) == Val((IF g.set THEN g.v ELSE 0) + 1)

-----------------------------------------------------------------------------
(* exporter.py: configuration and what getSlot endpoints answer *)

\* config["hosts"] as load_config returns it; host labels are unique
ExConfigs ==
    { [i \in 1..n |-> [host |-> HostLabel(i), rpc_url |-> RpcUrl(i)]] :
      n \in 1..MaxExHosts }

ExN == Len(exHosts)
ExLabels == {exHosts[i].host : i \in 1..ExN}

Slots == (0 - MaxSlot)..MaxSlot

SlotBodies ==
    { NotJson, JArr(<<>>), EmptyObj, ObjWith("result", JNull),
      ObjWith("result", JStr(StrDigit)), ObjWith("result", JStr(StrOk)),
      ObjWith("result", JArr(<<>>)) }
    \cup { ObjWith("result", JInt(v)) : v \in Slots }

SlotResponses ==
    {Transport} \cup {Http(s, b) : s \in Statuses, b \in SlotBodies}

-----------------------------------------------------------------------------
(* exporter.py: get_slot_number *)

Returned(v) == [k |-> "ret", v |-> v]      \* v = JNull: the function returned None
Escaped(e) == [k |-> "exc", e |-> e]       \* an exception left the function
NotProbed == [k |-> "none"]

\* Python: response.json().get("result")
DictGet(body, key) ==
    IF body.t # "obj" THEN Escaped("AttributeError")
    ELSE IF key \in DOMAIN body.f THEN Returned(body.f[key])
    ELSE Returned(JNull)

\* get_slot_number(url) for the response resp of requests.post
get_slot_number(resp) ==
    IF resp.kind = "transport" THEN Returned(JNull)
    ELSE IF RaiseForStatus(resp.status) THEN Returned(JNull)
    ELSE IF resp.body = NotJson THEN Returned(JNull)
    ELSE DictGet(resp.body, "result")

IsNone(out) == out.k = "ret" /\ out.v = JNull
HasValue(out) == out.k = "ret" /\ out.v # JNull

-----------------------------------------------------------------------------
(* exporter.py: check_node_slots, job and the main loop *)

\* line 120: schedule.every(5).seconds
Interval == 5
\* line 126: time.sleep(1)
SleepSeconds == 1

Metrics ==
    [ REFERENCE_SLOT_NUMBER |-> REFERENCE_SLOT_NUMBER,
      REFERENCE_SLOT_NUMBER_ERROR_COUNT |-> REFERENCE_SLOT_NUMBER_ERROR_COUNT,
      NODE_SLOT_NUMBER |-> NODE_SLOT_NUMBER,
      SLOT_DIFFERENCE |-> SLOT_DIFFERENCE,
      NODE_SLOT_NUMBER_ERROR_COUNT |-> NODE_SLOT_NUMBER_ERROR_COUNT ]

FreshLog(n) == [ref |-> NotProbed, hosts |-> [i \in 1..n |-> NotProbed]]

NoStamp == [slot |-> 0, diff |-> 0, ref |-> 0]

\* mutant of NextRun: the job is due as soon as it is scheduled
NextRunAtOnce(elapsed) == 0

\* line 120 and schedule's Job._schedule_next_run: the job is due one interval
\* after it was scheduled or ran last; seconds left when `elapsed` have passed
NextRun(elapsed) == Interval - elapsed

\* mutant of SlotDifference: the operands are swapped
SlotDifferenceSwapped(r, s) == PySub(s, r)

\* line 79: slot_difference = reference_slot - node_slot
SlotDifference(r, s) == PySub(r, s)

\* mutant of ReferenceErrorInc: the failure is logged but not counted
ReferenceErrorNotCounted(c) == c

\* line 69: REFERENCE_SLOT_NUMBER_ERROR_COUNT.inc()
ReferenceErrorInc(c) == c + 1

\* mutant of NodeErrorInc: a failed host also counts for every other host
NodeErrorIncAll(counts, label) == [l \in DOMAIN counts |-> LabelledInc(counts[l])]

\* line 86: NODE_SLOT_NUMBER_ERROR_COUNT.labels(host=host["host"]).inc()
NodeErrorInc(counts, label) == [counts EXCEPT ![label] = LabelledInc(counts[label])]

\* mutant of LabelledSet: the value is added to the gauge (inc) instead of set
LabelledAdd(gauge, label, n) ==
    [gauge EXCEPT ![label] = Val((IF gauge[label].set THEN gauge[label].v ELSE 0) + n)]

\* line 78: NODE_SLOT_NUMBER.labels(host=host["host"]).set(node_slot)
\* line 80: SLOT_DIFFERENCE.labels(host=host["host"]).set(slot_difference)
LabelledSet(gauge, label, n) == [gauge EXCEPT ![label] = Val(n)]

\* job returns to schedule, which plans the next run, and run_pending returns
\* to the loop: line 126, time.sleep(1)
ExEndJob ==
    /\ exPc' = "sleep"
    /\ exI' = 0
    /\ exNet' = "none"
    /\ exTimer' = NextRun(0)
    /\ reference_slot' = JNull
    /\ node_slot' = JNull
    /\ UNCHANGED exCritical

\* mutant of ExEscape: the exception is logged and the loop goes on
ExEscapeResumes ==
    /\ exPc' = "sleep"
    /\ exNet' = "none"
    /\ exTimer' = NextRun(0)
    /\ exCritical' = TRUE
    /\ UNCHANGED exI

\* an exception leaves job, schedule.run_pending and the while loop; line 129
\* catches it, logs it, and the script ends
ExEscape ==
    /\ exPc' = "exited"
    /\ exNet' = "none"
    /\ exCritical' = TRUE
    /\ UNCHANGED <<exI, exTimer>>

\* lines 73-75: the for-loop enters its body for host i and issues requests.post
ExProbeHost(i) ==
    /\ exPc' = "host"
    /\ exI' = i
    /\ exNet' \in Peers
    /\ node_slot' = JNull
    /\ UNCHANGED <<exTimer, exCritical>>

\* mutant of ExAdvance: the for-loop stops after its first host
ExAdvanceStops(i) == ExEndJob

\* the for-loop after the body for host i
ExAdvance(i) ==
    IF i < ExN
    THEN ExProbeHost(i + 1) /\ UNCHANGED reference_slot
    ELSE ExEndJob

\* lines 124-126: run_pending finds nothing due; time.sleep(1) returns
ExSleep ==
    /\ exPc = "sleep"
    /\ exTimer > SleepSeconds
    /\ exTimer' = NextRun(Interval - exTimer + SleepSeconds)
    /\ UNCHANGED <<exHosts, exPc, exI, exNet, exCycles, reference_slot, node_slot,
                   exMetricVars, exPre, exLog, exPrev, exStamp, exCritical>>

\* lines 124-125, 89-92, 61-62: time.sleep(1) returns, the job is due,
\* run_pending calls job; check_node_slots issues the POST to the reference
ExRunJob ==
    /\ exPc = "sleep"
    /\ exTimer <= SleepSeconds
    /\ exCycles < MaxCycles
    /\ exCycles' = exCycles + 1
    /\ exPc' = "ref"
    /\ exNet' \in Peers
    /\ exTimer' = 0
    /\ exPre' = Metrics
    /\ exPrev' = exLog
    /\ exLog' = FreshLog(ExN)
    /\ UNCHANGED <<exHosts, exI, reference_slot, node_slot, exMetricVars, exStamp,
                   exCritical>>

\* requests.post to the reference endpoint returns; lines 62-75
ExRefReturn ==
    /\ exPc = "ref"
    /\ exNet = "answers"
    /\ \E resp \in SlotResponses :
         LET out == get_slot_number(resp) IN
         /\ exLog' = [exLog EXCEPT !.ref = out]
         /\ IF out.k = "exc"
            THEN ExEscape /\ UNCHANGED <<reference_slot, node_slot, exMetricVars, exStamp>>
            ELSE IF IsNone(out)
            THEN /\ REFERENCE_SLOT_NUMBER_ERROR_COUNT' =
                        ReferenceErrorInc(REFERENCE_SLOT_NUMBER_ERROR_COUNT)
                 /\ ExEndJob
                 /\ UNCHANGED <<REFERENCE_SLOT_NUMBER, NODE_SLOT_NUMBER, exStamp,
                                SLOT_DIFFERENCE, NODE_SLOT_NUMBER_ERROR_COUNT>>
            ELSE LET f == PyFloat(out.v) IN
                 IF ~f.ok
                 THEN ExEscape /\ UNCHANGED <<reference_slot, node_slot, exMetricVars,
                                               exStamp>>
                 ELSE /\ REFERENCE_SLOT_NUMBER' = f.v
                      /\ exStamp' = [exStamp EXCEPT !.ref = exCycles]
                      /\ reference_slot' = out.v
                      /\ ExProbeHost(1)
                      /\ UNCHANGED <<REFERENCE_SLOT_NUMBER_ERROR_COUNT, NODE_SLOT_NUMBER,
                                     SLOT_DIFFERENCE, NODE_SLOT_NUMBER_ERROR_COUNT>>
    /\ UNCHANGED <<exHosts, exCycles, exPre, exPrev>>

\* requests.post to host exI returns; lines 75-78 and 84-86
ExHostReturn ==
    /\ exPc = "host"
    /\ exNet = "answers"
    /\ \E resp \in SlotResponses :
         LET out == get_slot_number(resp)
             label == exHosts[exI].host
         IN
         /\ exLog' = [exLog EXCEPT !.hosts[exI] = out]
         /\ IF out.k = "exc"
            THEN ExEscape /\ UNCHANGED <<reference_slot, node_slot, exMetricVars, exStamp>>
            ELSE IF IsNone(out)
            THEN /\ NODE_SLOT_NUMBER_ERROR_COUNT' =
                        NodeErrorInc(NODE_SLOT_NUMBER_ERROR_COUNT, label)
                 /\ ExAdvance(exI)
                 /\ UNCHANGED <<REFERENCE_SLOT_NUMBER, REFERENCE_SLOT_NUMBER_ERROR_COUNT,
                                NODE_SLOT_NUMBER, SLOT_DIFFERENCE, exStamp>>
            ELSE LET f == PyFloat(out.v) IN
                 IF ~f.ok
                 THEN ExEscape /\ UNCHANGED <<reference_slot, node_slot, exMetricVars,
                                               exStamp>>
                 ELSE /\ NODE_SLOT_NUMBER' = LabelledSet(NODE_SLOT_NUMBER, label, f.v)
                      /\ exStamp' = [exStamp EXCEPT !.hosts[label].slot = exCycles,
                                                    !.hosts[label].ref = REFERENCE_SLOT_NUMBER]
                      /\ node_slot' = out.v
                      /\ exPc' = "diff"
                      /\ exNet' = "none"
                      /\ UNCHANGED <<exI, exTimer, reference_slot, REFERENCE_SLOT_NUMBER,
                                     REFERENCE_SLOT_NUMBER_ERROR_COUNT, SLOT_DIFFERENCE,
                                     NODE_SLOT_NUMBER_ERROR_COUNT, exCritical>>
    /\ UNCHANGED <<exHosts, exCycles, exPre, exPrev>>

\* lines 79-83: the difference is computed and stored, then the loop goes on
ExHostDiff ==
    /\ exPc = "diff"
    /\ LET d == SlotDifference(reference_slot, node_slot)
           label == exHosts[exI].host
       IN
       IF ~d.ok
       THEN ExEscape /\ UNCHANGED <<reference_slot, node_slot, exMetricVars, exStamp>>
       ELSE /\ SLOT_DIFFERENCE' = LabelledSet(SLOT_DIFFERENCE, label, d.v)
            /\ exStamp' = [exStamp EXCEPT !.hosts[label].diff = exCycles]
            /\ ExAdvance(exI)
            /\ UNCHANGED <<REFERENCE_SLOT_NUMBER, REFERENCE_SLOT_NUMBER_ERROR_COUNT,
                           NODE_SLOT_NUMBER, NODE_SLOT_NUMBER_ERROR_COUNT>>
    /\ UNCHANGED <<exHosts, exCycles, exPre, exLog, exPrev>>

\* the main thread is running: the process, and with it the daemon thread
\* that start_http_server started, is alive
ExAlive == exPc \in {"sleep", "ref", "host", "diff"}

\* KeyboardInterrupt (line 127) or a kill from outside
ExInterrupt ==
    /\ ExAlive
    /\ exPc' = "interrupted"
    /\ exNet' = "none"
    /\ UNCHANGED <<exHosts, exI, exTimer, exCycles, reference_slot, node_slot,
                   exMetricVars, exPre, exLog, exPrev, exStamp, exCritical>>

NoRead == [served |-> FALSE]
Served(body) == [served |-> TRUE, body |-> body]

\* mutant of ExRead: a scrape is served only between two cycles
ExReadWhenIdle ==
    /\ exPc = "sleep"
    /\ exRead' = Served(Metrics)
    /\ UNCHANGED exLoopVars

\* lines 109-111: the thread of start_http_server serves a GET of /metrics
\* from the values the gauges hold; the main thread is wherever it is
ExRead ==
    /\ ExAlive
    /\ exRead' = Served(Metrics)
    /\ UNCHANGED exLoopVars

\* a step of the main thread: the response served before it is history
ExMain == exRead' = NoRead

\* after start_http_server and schedule.every(5).seconds.do(job): the first
\* run_pending finds nothing due and the loop is in its first time.sleep(1)
ExInit ==
    /\ exHosts \in ExConfigs
    /\ exPc = "sleep"
    /\ exI = 0
    /\ exNet = "none"
    /\ exTimer = NextRun(0)
    /\ exCycles = 0
    /\ reference_slot = JNull
    /\ node_slot = JNull
    /\ REFERENCE_SLOT_NUMBER = 0
    /\ REFERENCE_SLOT_NUMBER_ERROR_COUNT = 0
    /\ NODE_SLOT_NUMBER = [l \in {exHosts[i].host : i \in 1..Len(exHosts)} |-> Unset]
    /\ SLOT_DIFFERENCE = NODE_SLOT_NUMBER
    /\ NODE_SLOT_NUMBER_ERROR_COUNT = NODE_SLOT_NUMBER
    /\ exPre = Metrics
    /\ exLog = FreshLog(Len(exHosts))
    /\ exPrev = exLog
    /\ exStamp = [ref |-> 0,
                  hosts |-> [l \in {exHosts[i].host : i \in 1..Len(exHosts)} |-> NoStamp]]
    /\ exCritical = FALSE
    /\ exRead = NoRead

-----------------------------------------------------------------------------
(* The two scripts are separate processes; each is followed on its own,    *)
(* with the other one not started.                                         *)

vars == <<hbVars, exVars>>

HbOff == HbInit /\ Len(hbConfig) = 1 /\ hbConfig[1].heartbeat_endpoint = <<"hb", 1>>
ExOff == ExInit /\ Len(exHosts) = 1

HbSpecInit == HbInit /\ ExOff
ExSpecInit == ExInit /\ HbOff

HbStep ==
    \/ HbStart /\ UNCHANGED exVars
    \/ HbWake /\ UNCHANGED exVars
    \/ HbPostReturn /\ UNCHANGED exVars
    \/ HbGetReturn /\ UNCHANGED exVars
    \/ HbInterrupt /\ UNCHANGED exVars

ExStep ==
    \/ ExSleep /\ ExMain /\ UNCHANGED hbVars
    \/ ExRunJob /\ ExMain /\ UNCHANGED hbVars
    \/ ExRefReturn /\ ExMain /\ UNCHANGED hbVars
    \/ ExHostReturn /\ ExMain /\ UNCHANGED hbVars
    \/ ExHostDiff /\ ExMain /\ UNCHANGED hbVars
    \/ ExInterrupt /\ ExMain /\ UNCHANGED hbVars
    \/ ExRead /\ UNCHANGED hbVars

\* the heartbeat script
HbSpec == HbSpecInit /\ [][HbStep]_vars

\* the exporter
ExSpec == ExSpecInit /\ [][ExStep]_vars

\* the heartbeat script with the scheduling the interpreter gives it: a call
\* that has returned is followed by the code after it.  Nothing makes a silent
\* peer answer, and nothing forces an interrupt.
HbFairSpec ==
    /\ HbSpec
    /\ WF_vars(HbStart /\ UNCHANGED exVars)
    /\ WF_vars(HbWake /\ UNCHANGED exVars)
    /\ WF_vars(HbPostReturn /\ UNCHANGED exVars)
    /\ WF_vars(HbGetReturn /\ UNCHANGED exVars)

-----------------------------------------------------------------------------
(* Heartbeat variant: claims *)

\* number of send_heartbeat invocations made for host i in this cycle
HbSendsFor(i) == Cardinality({k \in 1..Len(hbSent) : hbSent[k].idx = i})

\* a cycle of the heartbeat variant has run to its end
HbCycleOver == hbPc = "sleep"

\* per host: one invocation, with the host's own endpoint, iff probed healthy
HbOncePerHealthyHost ==
    /\ \A i \in 1..HbN : HbSendsFor(i) = (IF hbProbe[i] = "True" THEN 1 ELSE 0)
    /\ \A k \in 1..Len(hbSent) :
         hbSent[k].url = hbConfig[hbSent[k].idx].heartbeat_endpoint

\* C1 as stated: in every cycle the forwarder is invoked exactly once with the
\* host's own heartbeat_endpoint for a host probed healthy, zero times for a
\* host probed unhealthy, and at the end of a cycle no heartbeat has gone to an
\* endpoint of a host that was not probed healthy in that cycle.
C1_Original ==
    /\ HbOncePerHealthyHost
    /\ HbCycleOver =>
         \A k \in 1..Len(hbSent) : \A j \in 1..HbN :
             hbConfig[j].heartbeat_endpoint = hbSent[k].url => hbProbe[j] = "True"

\* C1 amended: in every cycle the forwarder is invoked exactly once, with the
\* host's own heartbeat_endpoint, on behalf of each host probed healthy and
\* zero times on behalf of a host probed unhealthy; every heartbeat goes to
\* the endpoint of at least one host probed healthy in the same cycle.
C1_OncePerHealthyHost ==
    /\ HbOncePerHealthyHost
    /\ \A k \in 1..Len(hbSent) : \E j \in 1..HbN :
         /\ hbConfig[j].heartbeat_endpoint = hbSent[k].url
         /\ hbProbe[j] = "True"

\* a finished cycle with a healthy and an unhealthy host and one heartbeat
C1_Witness ==
    /\ HbCycleOver
    /\ \E i, j \in 1..HbN : hbProbe[i] = "True" /\ hbProbe[j] = "False"
    /\ Len(hbSent) = 1

Is2xx(status) == 200 <= status /\ status < 300

\* C5: whatever requests.post came back with, check_rpc_call returned a
\* boolean to job (it did not raise), and it returned True only for a 2xx
\* response whose decoded body has no top-level error field.
C5_ProbeAlwaysReturnsBoolean ==
    hbLast.idx # 0 =>
        /\ hbProbe[hbLast.idx] \in {"True", "False"}
        /\ hbProbe[hbLast.idx] = "True" =>
             /\ hbLast.resp.kind = "http"
             /\ Is2xx(hbLast.resp.status)
             /\ hbLast.resp.body.t = "obj"
             /\ "error" \notin DOMAIN hbLast.resp.body.f

\* the body of the for-loop for host h is over (however it ended)
HbBodyOver(h) == hbProbe[h] # "none" /\ ~(hbI = h /\ hbPc = "get")

\* C8: hosts are handled in configured order and independently: whatever the
\* probe and the heartbeat GET of the hosts before h came back with, once the
\* host before h has been dealt with h is probed, and a heartbeat is sent for h
\* iff h's own probe was healthy (unless the process is interrupted).
C8_HostsIndependent ==
    hbPc # "interrupted" =>
        /\ \A h \in 2..HbN : HbBodyOver(h - 1) => (hbI = h \/ hbProbe[h] # "none")
        /\ \A h \in 1..HbN : HbSendsFor(h) = (IF hbProbe[h] = "True" THEN 1 ELSE 0)

\* C7: no outcome of a probe or of a notification ends the scheduler loop of
\* either script; the loop is left only by an interruption from outside.
C7_LoopNeverEnds == hbPc # "crashed" /\ exPc # "exited"

\* C9: every outbound call has a bounded wait, so a cycle that is waiting for
\* an answer eventually gets on: the pending call ends and the cycle reaches
\* its end (or the process is stopped).
C9_CycleCompletes ==
    (hbPc \in {"post", "get"}) ~> (hbPc \in {"sleep", "crashed", "interrupted"})

\* the schedule of hearbeat.py, without the claim that it goes on forever:
\* job is called before the first sleep, one time.sleep(30) lies between two
\* calls of job, and a call of job starts only from the start or from a sleep
HbAlternates ==
    /\ hbJobs = 0 => (hbSleeps = 0 /\ hbPc \in {"start", "interrupted"})
    /\ hbJobs > 0 => hbSleeps = hbJobs - 1
    /\ hbNap = (IF hbPc = "sleep" THEN 30 ELSE 0)

\* C11: the evaluator runs once at startup before any sleep, then a 30-unit
\* sleep alternates with exactly one cycle, forever: the alternation is never
\* left except by an interruption from outside.
C11_RunsAtStartupThenEvery30 ==
    /\ HbAlternates
    /\ hbPc \in {"start", "post", "get", "sleep", "interrupted"}

-----------------------------------------------------------------------------
(* Exporter variant: claims *)

\* get_slot_number returned an integer slot
GotSlot(out) == out.k = "ret" /\ out.v.t = "int"

\* the cycle that started last has ended: job returned, or an exception left it
ExCycleOver == exCycles > 0 /\ exPc \in {"sleep", "exited"}

\* C2: in a cycle whose reference probe yields no value, the reference error
\* counter is one more than before the cycle, no host is probed, and the
\* reference-slot gauge, every host's slot gauge, slot-difference gauge and
\* error counter have the values they had before the cycle.
C2_ReferenceFailure ==
    IsNone(exLog.ref) =>
        /\ REFERENCE_SLOT_NUMBER_ERROR_COUNT = exPre.REFERENCE_SLOT_NUMBER_ERROR_COUNT + 1
        /\ \A i \in 1..ExN : exLog.hosts[i] = NotProbed
        /\ exPc \notin {"host", "diff"}
        /\ REFERENCE_SLOT_NUMBER = exPre.REFERENCE_SLOT_NUMBER
        /\ NODE_SLOT_NUMBER = exPre.NODE_SLOT_NUMBER
        /\ SLOT_DIFFERENCE = exPre.SLOT_DIFFERENCE
        /\ NODE_SLOT_NUMBER_ERROR_COUNT = exPre.NODE_SLOT_NUMBER_ERROR_COUNT

\* a cycle with a failed reference probe, after a cycle that set host gauges
C2_Witness ==
    /\ ExCycleOver
    /\ IsNone(exLog.ref)
    /\ \E l \in ExLabels : exPre.NODE_SLOT_NUMBER[l].set /\ exPre.SLOT_DIFFERENCE[l].set

\* C3: at the end of a cycle in which the reference probe returned slot r and
\* a host's probe returned slot s, that host's slot gauge is s and its
\* slot-difference gauge is r - s, also when s > r; the host's error counter
\* is what it was before the cycle.
C3_SlotDifference ==
    ExCycleOver =>
        \A i \in 1..ExN :
            (GotSlot(exLog.ref) /\ GotSlot(exLog.hosts[i])) =>
                LET l == exHosts[i].host
                    r == exLog.ref.v.i
                    s == exLog.hosts[i].v.i
                IN  /\ NODE_SLOT_NUMBER[l] = Val(s)
                    /\ SLOT_DIFFERENCE[l] = Val(r - s)
                    /\ NODE_SLOT_NUMBER_ERROR_COUNT[l] = exPre.NODE_SLOT_NUMBER_ERROR_COUNT[l]

\* a finished cycle in which a host is ahead of the reference
C3_Witness ==
    /\ ExCycleOver
    /\ \E i \in 1..ExN :
         /\ GotSlot(exLog.ref) /\ GotSlot(exLog.hosts[i])
         /\ exLog.hosts[i].v.i > exLog.ref.v.i
         /\ SLOT_DIFFERENCE[exHosts[i].host].v < 0

\* C4: in a cycle in which the reference probe succeeds and a host's probe
\* yields no value, that host's error counter is one more than before the
\* cycle and its slot gauge and slot-difference gauge have the values they had
\* before the cycle (a series that was not set is still not set).
C4_HostFailure ==
    \A i \in 1..ExN :
        (HasValue(exLog.ref) /\ IsNone(exLog.hosts[i])) =>
            LET l == exHosts[i].host IN
            /\ NODE_SLOT_NUMBER_ERROR_COUNT[l] =
                   LabelledInc(exPre.NODE_SLOT_NUMBER_ERROR_COUNT[l])
            /\ NODE_SLOT_NUMBER[l] = exPre.NODE_SLOT_NUMBER[l]
            /\ SLOT_DIFFERENCE[l] = exPre.SLOT_DIFFERENCE[l]

\* a finished cycle in which one host failed whose gauges were set before and
\* another host failed whose gauges were never set
C4_Witness ==
    /\ ExCycleOver
    /\ HasValue(exLog.ref)
    /\ \E i, j \in 1..ExN :
         /\ IsNone(exLog.hosts[i]) /\ IsNone(exLog.hosts[j])
         /\ exPre.NODE_SLOT_NUMBER[exHosts[i].host].set
         /\ exPre.SLOT_DIFFERENCE[exHosts[i].host].v # 0
         /\ ~NODE_SLOT_NUMBER[exHosts[j].host].set
         /\ ~SLOT_DIFFERENCE[exHosts[j].host].set

\* what get_slot_number gave for one probe is an integer slot or "no value"
SlotOrNoValue(out) == out = NotProbed \/ GotSlot(out) \/ IsNone(out)

\* C6: whatever a getSlot request comes back with, the probe yields an integer
\* slot or "no value": a result that is missing or not an integer is handled
\* as a failed probe, is not written to a gauge, and no exception leaves the
\* cycle.
C6_MalformedIsNoValue ==
    /\ SlotOrNoValue(exLog.ref)
    /\ \A i \in 1..ExN : SlotOrNoValue(exLog.hosts[i])
    /\ exPc # "exited"

\* every probe of the cycle returned an integer slot
AllSucceeded(log) ==
    /\ GotSlot(log.ref)
    /\ \A i \in 1..ExN : GotSlot(log.hosts[i])

\* C10: at the end of a cycle whose probes all succeeded with the same slots
\* as the probes of the cycle before it, all five metrics have the values they
\* had at the end of the cycle before (which are the values the cycle started
\* with).
C10_Idempotent ==
    (ExCycleOver /\ exCycles >= 2 /\ AllSucceeded(exLog) /\ exLog = exPrev) =>
        Metrics = exPre

\* two such cycles in a row, with a host behind the reference
C10_Witness ==
    /\ ExCycleOver /\ exCycles >= 2 /\ AllSucceeded(exLog) /\ exLog = exPrev
    /\ \E l \in ExLabels : SLOT_DIFFERENCE[l].v > 0
    /\ REFERENCE_SLOT_NUMBER # 0


\* the statement of C12 as it was made: a cycle is run at startup (no second
\* of the interval is waited before the first cycle), then one per interval,
\* forever
C12_Original ==
    /\ exCycles = 0 => exTimer = Interval
    /\ exPc = "sleep" => exTimer \in 1..5
    /\ exPc # "exited"

\* C12: no cycle is run at startup.  The job is due 5 units after it was
\* scheduled and 5 units after each run of it returned; the loop waits them in
\* sleeps of one unit, a cycle starts only out of the last of them, so no cycle
\* starts while another is in progress, and the count of cycles grows by one.
C12_FirstCycleAfterInterval ==
    /\ exCycles = 0 /\ exPc = "sleep" /\ exTimer = 5
    /\ [](exPc = "sleep" => exTimer \in 1..5)
    /\ [][exCycles' # exCycles =>
            (exPc = "sleep" /\ exTimer = 1 /\ exPc' = "ref" /\ exCycles' = exCycles + 1)]_vars
    /\ [][(exPc = "sleep" /\ exPc' = "sleep") => exTimer' \in {exTimer, exTimer - 1}]_vars
    /\ [][(exPc # "sleep" /\ exPc' = "sleep") => exTimer' = 5]_vars

\* the second cycle has started, one interval after the first one returned
C12_Witness == exCycles = 2 /\ exPc = "ref" /\ exPrev.ref # NotProbed

\* C13: in every state of the evaluator loop (sleeping, waiting on a pending
\* probe, between two writes of a cycle) the responder can serve a read, the
\* read returns the value each metric has at that moment, and every step the
\* evaluator could take without a read it can take after one.
C13_ReadNeverBlocks ==
    /\ ExAlive => ENABLED ExRead
    /\ exRead.served => exRead.body = Metrics
    /\ (exPc = "sleep" /\ exTimer > SleepSeconds) => ENABLED ExSleep
    /\ (exPc = "sleep" /\ exTimer <= SleepSeconds /\ exCycles < MaxCycles) => ENABLED ExRunJob
    /\ (exPc = "ref" /\ exNet = "answers") => ENABLED ExRefReturn
    /\ (exPc = "host" /\ exNet = "answers") => ENABLED ExHostReturn
    /\ exPc = "diff" => ENABLED ExHostDiff

\* a read served in the second cycle while a host's probe is pending and will
\* never be answered, with gauges set by the first cycle
C13_Witness ==
    /\ exRead.served
    /\ exCycles = 2 /\ exPc = "host" /\ exNet = "silent"
    /\ \E l \in ExLabels : exRead.body.SLOT_DIFFERENCE[l].set

\* a probe failed in the sense of the error taxonomy: it was made and did not
\* give an integer slot (no value, an exception, a result that is no integer)
ProbeFailed(out) == out # NotProbed /\ ~GotSlot(out)

\* value of a labelled counter, a series not created yet counting as 0
CountOf(g) == IF g.set THEN g.v ELSE 0

\* the error counters start at zero/unset, never go down, and over a finished
\* cycle grow by one exactly if the cycle's probe Failed, else by nothing
CountersCount(Failed(_)) ==
    /\ exCycles = 0 =>
         /\ REFERENCE_SLOT_NUMBER_ERROR_COUNT = 0
         /\ \A l \in ExLabels : NODE_SLOT_NUMBER_ERROR_COUNT[l] = Unset
    /\ REFERENCE_SLOT_NUMBER_ERROR_COUNT >= exPre.REFERENCE_SLOT_NUMBER_ERROR_COUNT
    /\ \A l \in ExLabels :
         CountOf(NODE_SLOT_NUMBER_ERROR_COUNT[l]) >= CountOf(exPre.NODE_SLOT_NUMBER_ERROR_COUNT[l])
    /\ ExCycleOver =>
         /\ REFERENCE_SLOT_NUMBER_ERROR_COUNT =
               exPre.REFERENCE_SLOT_NUMBER_ERROR_COUNT + (IF Failed(exLog.ref) THEN 1 ELSE 0)
         /\ \A i \in 1..ExN :
               CountOf(NODE_SLOT_NUMBER_ERROR_COUNT[exHosts[i].host]) =
                   CountOf(exPre.NODE_SLOT_NUMBER_ERROR_COUNT[exHosts[i].host])
                   + (IF Failed(exLog.hosts[i]) THEN 1 ELSE 0)

\* what the counters do count: the cycles in which get_slot_number returned None
ExCountersCountNone == CountersCount(IsNone)

\* C14: the reference error counter and every host's error counter start at
\* zero/unset, never decrease, and equal the number of cycles in which the
\* corresponding probe failed (each finished cycle adds one exactly if its
\* probe failed).
C14_CountersCountFailures == CountersCount(ProbeFailed)

\* C15: the reference-slot gauge and every host's slot gauge that is set hold
\* a non-negative integer, whatever the endpoints answered.
C15_SlotGaugesNonNegative ==
    /\ REFERENCE_SLOT_NUMBER \in Nat
    /\ \A l \in ExLabels : NODE_SLOT_NUMBER[l].set => NODE_SLOT_NUMBER[l].v \in Nat


\* inside a cycle: the reference is probed before any host and its gauge is
\* set before the first host's probe is issued; hosts are probed in the order
\* of the configuration; a host's probe is made at most once in a cycle
ExProbedInOrder ==
    /\ [](exPc \in {"host", "diff"} =>
            /\ HasValue(exLog.ref) /\ PyFloat(exLog.ref.v).ok
            /\ REFERENCE_SLOT_NUMBER = PyFloat(exLog.ref.v).v
            /\ exStamp.ref = exCycles
            /\ \A j \in 1..ExN :
                 (exLog.hosts[j] # NotProbed) <=> (j < exI \/ (j = exI /\ exPc = "diff")))
    /\ [](\A i \in 1..ExN : exLog.hosts[i] # NotProbed =>
            /\ exLog.ref # NotProbed
            /\ \A j \in 1..i : exLog.hosts[j] # NotProbed)
    /\ [][\A i \in 1..ExN :
            (exLog.hosts[i] # NotProbed /\ exCycles' = exCycles) =>
                exLog'.hosts[i] = exLog.hosts[i]]_vars

\* the statement of C16 as it was made: the order inside a cycle, and a host
\* whose probe failed is probed again in the next cycle (here: the next cycle
\* that ran to its end without an exception)
C16_Original ==
    (exCycles >= 2 /\ exPc = "sleep") =>
        \A i \in 1..ExN : IsNone(exPrev.hosts[i]) => exLog.hosts[i] # NotProbed

\* C16: the order inside a cycle is as ExProbedInOrder says, and a failed
\* probe leaves no trace in the handling of the host: every cycle whose
\* reference probe yields a value and which no exception ends probes every
\* host, whatever the cycle before it gave; a cycle whose reference probe
\* yields no value probes no host, failed before or not.
C16_OrderInsideCycle ==
    /\ ExProbedInOrder
    /\ []((ExCycleOver /\ exPc = "sleep") =>
            \A i \in 1..ExN :
                (exLog.hosts[i] # NotProbed) <=> HasValue(exLog.ref))

\* a host whose probe failed in the first cycle gave a slot in the second
C16_Witness ==
    /\ exCycles = 2 /\ exPc = "sleep"
    /\ \E i \in 1..ExN : IsNone(exPrev.hosts[i]) /\ GotSlot(exLog.hosts[i])
    /\ \E j \in 1..ExN : IsNone(exLog.hosts[j])

\* an exception was raised in the current cycle: get_slot_number raised, or
\* Gauge.set or the subtraction did for the value a probe returned
ExRaised ==
    \/ exLog.ref.k = "exc"
    \/ HasValue(exLog.ref) /\ ~PyFloat(exLog.ref.v).ok
    \/ \E i \in 1..ExN :
         \/ exLog.hosts[i].k = "exc"
         \/ /\ HasValue(exLog.hosts[i])
            /\ \/ ~PyFloat(exLog.hosts[i].v).ok
               \/ /\ ~SlotDifference(exLog.ref.v, exLog.hosts[i].v).ok
                  /\ exPc \notin {"diff", "interrupted"}

\* the gauges as the writes made in the current cycle before its end left them
ExWrittenSoFar ==
    /\ REFERENCE_SLOT_NUMBER =
          (IF HasValue(exLog.ref) /\ PyFloat(exLog.ref.v).ok
           THEN PyFloat(exLog.ref.v).v ELSE exPre.REFERENCE_SLOT_NUMBER)
    /\ \A i \in 1..ExN :
         LET l == exHosts[i].host
             out == exLog.hosts[i]
             wrote == HasValue(out) /\ PyFloat(out.v).ok
         IN  /\ NODE_SLOT_NUMBER[l] =
                   (IF wrote THEN Val(PyFloat(out.v).v) ELSE exPre.NODE_SLOT_NUMBER[l])
             /\ SLOT_DIFFERENCE[l] =
                   (IF wrote /\ SlotDifference(exLog.ref.v, out.v).ok
                    THEN Val(SlotDifference(exLog.ref.v, out.v).v)
                    ELSE exPre.SLOT_DIFFERENCE[l])

\* C17: an exception that escapes a cycle is logged at critical severity and
\* ends the loop: the script is past the loop, nothing more happens (no cycle
\* starts, no gauge changes), and the gauges hold what the cycle had written
\* before the exception.
C17_ExceptionEndsLoop ==
    /\ [](ExRaised => (exPc = "exited" /\ exCritical))
    /\ [](exPc = "exited" => (ExRaised /\ exCritical /\ ExWrittenSoFar))
    /\ [][exPc = "exited" => exVars' = exVars]_vars

\* the second cycle set the reference gauge and the first host's gauges anew,
\* wrote the second host's slot, and then the subtraction raised
C17_Witness ==
    /\ exPc = "exited" /\ exCycles = 2 /\ exI = 2 /\ exCritical
    /\ HasValue(exLog.hosts[2])
    /\ REFERENCE_SLOT_NUMBER # exPre.REFERENCE_SLOT_NUMBER
    /\ NODE_SLOT_NUMBER[exHosts[1].host] # exPre.NODE_SLOT_NUMBER[exHosts[1].host]
    /\ SLOT_DIFFERENCE[exHosts[1].host] # exPre.SLOT_DIFFERENCE[exHosts[1].host]
    /\ ~SlotDifference(exLog.ref.v, exLog.hosts[2].v).ok
    /\ NODE_SLOT_NUMBER[exHosts[2].host] # exPre.NODE_SLOT_NUMBER[exHosts[2].host]
    /\ SLOT_DIFFERENCE[exHosts[2].host].set

\* the host's slot gauge and slot-difference gauge were written in the same
\* cycle
SameCycle(l) == exStamp.hosts[l].slot = exStamp.hosts[l].diff

\* the host's gauges were both written in the current cycle and add up to the
\* reference gauge
AgreesWithReference(l) ==
    (exStamp.hosts[l].slot = exCycles /\ exStamp.hosts[l].diff = exCycles /\ exCycles > 0) =>
        SLOT_DIFFERENCE[l].v + NODE_SLOT_NUMBER[l].v = REFERENCE_SLOT_NUMBER

OwnOutcomeDecides(i) ==
    LET l == exHosts[i].host
        own == exLog.hosts[i]
    IN  /\ GotSlot(own) =>
              /\ NODE_SLOT_NUMBER[l] = Val(own.v.i)
              /\ SLOT_DIFFERENCE[l] = Val(exLog.ref.v.i - own.v.i)
              /\ NODE_SLOT_NUMBER_ERROR_COUNT[l] = exPre.NODE_SLOT_NUMBER_ERROR_COUNT[l]
        /\ IsNone(own) =>
              /\ NODE_SLOT_NUMBER[l] = exPre.NODE_SLOT_NUMBER[l]
              /\ SLOT_DIFFERENCE[l] = exPre.SLOT_DIFFERENCE[l]
              /\ NODE_SLOT_NUMBER_ERROR_COUNT[l] =
                     LabelledInc(exPre.NODE_SLOT_NUMBER_ERROR_COUNT[l])
        /\ own = NotProbed =>
              /\ NODE_SLOT_NUMBER[l] = exPre.NODE_SLOT_NUMBER[l]
              /\ SLOT_DIFFERENCE[l] = exPre.SLOT_DIFFERENCE[l]
              /\ NODE_SLOT_NUMBER_ERROR_COUNT[l] = exPre.NODE_SLOT_NUMBER_ERROR_COUNT[l]

\* the frame of the handling of a host: only the host's own series change,
\* and the reference series are those the reference probe left
ExOwnSeriesOnly ==
    (ExCycleOver /\ GotSlot(exLog.ref)) =>
        /\ REFERENCE_SLOT_NUMBER = exLog.ref.v.i
        /\ REFERENCE_SLOT_NUMBER_ERROR_COUNT = exPre.REFERENCE_SLOT_NUMBER_ERROR_COUNT
        /\ \A i \in 1..ExN : OwnOutcomeDecides(i)

\* C19: the handling of a host changes only the host's own series, so after
\* a cycle with a successful reference probe every host has been handled and
\* its metrics follow from its own probe, whatever the other hosts' probes
\* came back with.
C19_OtherHostsDoNotMatter ==
    /\ ExOwnSeriesOnly
    /\ (ExCycleOver /\ GotSlot(exLog.ref)) =>
          \A i \in 1..ExN : exLog.hosts[i] # NotProbed

\* the evaluator is between two cycles
ExBoundary == exPc = "sleep"

\* C20: between two cycles, for every host whose two gauges are set, slot
\* difference plus slot is the reference slot of the last cycle in which the
\* host's probe succeeded; it is the current reference gauge for the hosts
\* whose probe succeeded in the cycle that wrote the reference gauge last.
C20_DifferencePlusSlot ==
    ExBoundary =>
        \A l \in ExLabels :
            (NODE_SLOT_NUMBER[l].set /\ SLOT_DIFFERENCE[l].set) =>
                /\ SLOT_DIFFERENCE[l].v + NODE_SLOT_NUMBER[l].v = exStamp.hosts[l].ref
                /\ exStamp.hosts[l].slot = exStamp.ref =>
                      SLOT_DIFFERENCE[l].v + NODE_SLOT_NUMBER[l].v = REFERENCE_SLOT_NUMBER

\* after the second cycle: a host that failed in it keeps a difference taken
\* against the first cycle's reference slot, which the reference gauge has
\* left, next to a host that agrees with the reference gauge
C20_Witness ==
    /\ ExBoundary /\ exCycles = 2
    /\ \E l, m \in ExLabels :
         /\ exStamp.hosts[l].slot = 1 /\ exStamp.hosts[l].diff = 1 /\ exStamp.ref = 2
         /\ SLOT_DIFFERENCE[l].v + NODE_SLOT_NUMBER[l].v # REFERENCE_SLOT_NUMBER
         /\ exStamp.hosts[m].slot = 2
         /\ SLOT_DIFFERENCE[m].v + NODE_SLOT_NUMBER[m].v = REFERENCE_SLOT_NUMBER

====
